---- MODULE Spec2Model ----
(***************************************************************************)
(* Click-event recommendation service (03_/FASTAPI_SERVER/main.py).        *)
(*                                                                         *)
(* A background worker drains a Kafka topic into a Redis list; the query   *)
(* endpoints read the whole list, group the events into time-window        *)
(* transactions, mine frequent itemsets and association rules, and rank    *)
(* recommendations.                                                        *)
(*                                                                         *)
(* Conventions of the model                                                *)
(*  - a Python float that the code computes as a quotient is the exact     *)
(*    fraction <<numerator, denominator>> (denominator > 0); comparisons   *)
(*    cross-multiply.  round(x, k) is round-half-even to an integer number *)
(*    of 10^-k units.                                                      *)
(*  - a Python dict is a record; "key in dict" is key \in DOMAIN record;   *)
(*    {} and [] are the empty function <<>>.                               *)
(*  - an event whose field is absent is the event carrying the default     *)
(*    that event.get(...) substitutes ('unknown', 0, []).                  *)
(*  - group_id, the formatted string "Y-MM-DD_HH-MM-SS", is the sequence   *)
(*    of its characters, produced digit by digit as str.format does;       *)
(*    "group_N" is the number N; a rule label "a, b -> c" is the record    *)
(*    [lhs |-> <<a, b>>, rhs |-> c].                                       *)
(*  - the iteration order of a Python set of product names is fixed per    *)
(*    process by the string hash seed: hashOrder lists the names in that   *)
(*    order.                                                               *)
(***************************************************************************)
EXTENDS Integers, Sequences, FiniteSets, TLC

VARIABLES
    topic,        \* the Kafka topic 'click-events': every message produced so far
    offset,       \* how many messages of the topic the worker has fetched
    wpc,          \* the worker thread: "init", "loop" or "stopped"
    wclient,      \* the worker's redis_client: "client" or "none" (None)
    redisUp,      \* whether the Redis server answers
    store,        \* the Redis list 'click_events', head first (lpush prepends)
    hashOrder,    \* iteration order of sets of product names in this process
    qpc,          \* the request in flight: "idle", "loaded" or "mined"
    req,          \* the current (or last) request and its parameters
    readLog,      \* the reads of the store made by the current (or last) request
    prepared_data, \* what prepare_transaction_data returned to that request
    rules_result, \* what generate_association_rules returned to that request
    response      \* what the endpoint answered

vars == <<topic, offset, wpc, wclient, redisUp, store, hashOrder,
          qpc, req, readLog, prepared_data, rules_result, response>>

(***************************************************************************)
(* Sequences, sets and fractions                                           *)
(***************************************************************************)
Range(s) == {s[i] : i \in DOMAIN s}

\* a list, or a dict over a set of keys, built once from the expression of its
\* elements (the same value as f)
AsList(f) == <<>> \o f
AsDict(f) == f @@ <<>>

\* the elements of s at the positions in keep, in order
AtPositions(s, keep) ==
    LET rank == AsDict([i \in keep |-> Cardinality({j \in keep : j < i})])
    IN  AsList([p \in 1..Cardinality(keep) |-> s[CHOOSE i \in keep : rank[i] = p - 1]])

\* first occurrences only, order kept ("if x not in seen: append")
Dedup(s) ==
    AtPositions(s, {i \in 1..Len(s) : \A j \in 1..(i - 1) : s[j] # s[i]})

Filter(s, Keep(_)) == AtPositions(s, {i \in 1..Len(s) : Keep(s[i])})

RECURSIVE Flatten(_)
Flatten(ss) == IF ss = <<>> THEN <<>> ELSE Head(ss) \o Flatten(Tail(ss))

RECURSIVE SumSeq(_)
SumSeq(s) == IF s = <<>> THEN 0 ELSE Head(s) + SumSeq(Tail(s))

RECURSIVE Pow2(_)
Pow2(k) == IF k = 0 THEN 1 ELSE 2 * Pow2(k - 1)

\* a stable sort: Before is a strict weak order, equal elements keep their order
StableSort(s, Before(_, _)) ==
    LET n == Len(s)
        pos == AsList([i \in 1..n |->
                  1 + Cardinality({j \in 1..n : j # i /\
                        (Before(s[j], s[i]) \/ (~Before(s[i], s[j]) /\ j < i))})])
    IN  AsList([p \in 1..n |-> s[CHOOSE i \in 1..n : pos[i] = p]])

\* the elements of S in increasing order of an injective integer key
OrderSetBy(S, Key(_)) ==
    LET key == AsDict([x \in S |-> Key(x)])
        rank == AsDict([x \in S |-> Cardinality({y \in S : key[y] < key[x]})])
    IN  AsList([p \in 1..Cardinality(S) |-> CHOOSE x \in S : rank[x] = p - 1])

FLe(a, b) == a[1] * b[2] <= b[1] * a[2]
FLt(a, b) == a[1] * b[2] < b[1] * a[2]
FEq(a, b) == a[1] * b[2] = b[1] * a[2]
\* Python's max(a, b): b only when it is strictly greater
FMax(a, b) == IF FLt(a, b) THEN b ELSE a
\* x * 0.5
FHalf(a) == <<a[1], 2 * a[2]>>

\* round(f, k) with scale = 10^k, as an integer number of 1/scale (half to even)
RoundHalfEven(f, scale) ==
    LET q == (f[1] * scale) \div f[2]
        r == (f[1] * scale) % f[2]
    IN  IF 2 * r < f[2] THEN q
        ELSE IF 2 * r > f[2] THEN q + 1
        ELSE IF q % 2 = 0 THEN q ELSE q + 1

\* s[:m], Python slicing (a negative m counts from the end)
Slice(s, m) ==
    IF m >= 0 THEN SubSeq(s, 1, IF m < Len(s) THEN m ELSE Len(s))
    ELSE SubSeq(s, 1, IF Len(s) + m > 0 THEN Len(s) + m ELSE 0)

PosIn(order, x) == CHOOSE i \in 1..Len(order) : order[i] = x

\* list(a set of names), in the process's iteration order
ToList(S, order) ==
    LET Key(x) == PosIn(order, x) IN OrderSetBy(S, Key)

\* combinations are generated smaller sizes last (bySize = -1) or first (+1),
\* and within a size in lexicographic order of the positions in order
ComboKey(S, order, bySize) ==
    LET n == Len(order)
        mask == SumSeq([i \in 1..n |-> IF order[i] \in S THEN Pow2(n - i) ELSE 0])
    IN  bySize * Cardinality(S) * Pow2(n) + (Pow2(n) - 1 - mask)

(***************************************************************************)
(* Transaction builder: prepare_transaction_data                            *)
(***************************************************************************)
EmptyFrame == [index |-> <<>>, columns |-> <<>>, rows |-> <<>>]

\* pd.DataFrame.empty: some axis has length 0
FrameEmpty(oht) == Len(oht.index) = 0 \/ Len(oht.columns) = 0

\* the characters str.format produces for an int under 'd' and '02d'
DecimalDigits == <<"0", "1", "2", "3", "4", "5", "6", "7", "8", "9">>

RECURSIVE DecimalOf(_)
DecimalOf(n) ==
    IF n < 10 THEN <<DecimalDigits[n + 1]>>
    ELSE DecimalOf(n \div 10) \o <<DecimalDigits[(n % 10) + 1]>>

format_d(n) == IF n < 0 THEN <<"-">> \o DecimalOf(0 - n) ELSE DecimalOf(n)

format_02d(n) == IF 0 <= n /\ n < 10 THEN <<"0">> \o format_d(n) ELSE format_d(n)

\* line 179: group_id = "unknown"
UnknownGroup == <<"u", "n", "k", "n", "o", "w", "n">>

\* lines 173-179: the group id of an event, a string (here its characters)
group_id_of(event, time_window) ==
    LET ts == event.timestamp IN
    IF Len(ts) >= 6
    THEN LET time_group == (ts[6] \div time_window) * time_window
         IN  format_d(ts[1]) \o <<"-">> \o format_02d(ts[2]) \o <<"-">>
                \o format_02d(ts[3]) \o <<"_">> \o format_02d(ts[4]) \o <<"-">>
                \o format_02d(ts[5]) \o <<"-">> \o format_02d(time_group)
    ELSE UnknownGroup

\* time_based_groups: the keys in insertion order
time_based_groups(events, time_window) ==
    Dedup([i \in 1..Len(events) |-> group_id_of(events[i], time_window)])

group_events_of(events, time_window, gid) ==
    LET InGroup(e) == group_id_of(e, time_window) = gid IN Filter(events, InGroup)

unique_products_of(group_events) ==
    Dedup([i \in 1..Len(group_events) |-> group_events[i].product_name])

\* next(e[field] for e in group_events if e['product_name'] == product)
FirstEventOf(group_events, product) ==
    group_events[CHOOSE i \in 1..Len(group_events) :
        /\ group_events[i].product_name = product
        /\ \A j \in 1..(i - 1) : group_events[j].product_name # product]

group_info_entry(gid, group_events, time_window) ==
    LET unique_products == unique_products_of(group_events) IN
    [group_id |-> gid,
     products |-> [k \in 1..Len(unique_products) |->
        [product_name |-> unique_products[k],
         category |-> FirstEventOf(group_events, unique_products[k]).category,
         price |-> FirstEventOf(group_events, unique_products[k]).price]],
     total_events |-> Len(group_events),
     unique_products |-> Len(unique_products),
     time_window |-> time_window]

\* the one-hot frame of the groups (lines 224-242): one row per non-empty group,
\* columns in order of first appearance; the id column 'TransactionID' is then
\* assigned (replacing a product column of that name) and made the index
one_hot(groups) ==
    LET kept == {i \in 1..Len(groups) : Len(groups[i]) > 0}
        transaction_ids == AtPositions([i \in 1..Len(groups) |-> i], kept)
        transaction_data == AtPositions(groups, kept)
        NotIdColumn(c) == c # "TransactionID"
        columns == Filter(Dedup(Flatten(transaction_data)), NotIdColumn)
    IN  [index |-> transaction_ids,
         columns |-> columns,
         rows |-> [k \in 1..Len(transaction_data) |->
                     Range(transaction_data[k]) \cap Range(columns)]]

prepare_transaction_data(events, time_window) ==
    IF events = <<>>
    THEN [oht |-> EmptyFrame, group_info |-> <<>>]
    ELSE IF time_window = 0 /\ \E i \in 1..Len(events) : Len(events[i].timestamp) >= 6
    THEN \* second // 0 raises ZeroDivisionError, caught at line 248
         [oht |-> EmptyFrame, group_info |-> <<>>]
    ELSE
    LET gids == time_based_groups(events, time_window)
        groups == AsList([k \in 1..Len(gids) |->
                     unique_products_of(group_events_of(events, time_window, gids[k]))])
    IN  [oht |-> one_hot(groups),
         group_info |-> [k \in 1..Len(gids) |->
            group_info_entry(gids[k], group_events_of(events, time_window, gids[k]),
                             time_window)]]

(***************************************************************************)
(* Rule miner: mlxtend apriori / association_rules as called at lines      *)
(* 276 and 287, and generate_association_rules                             *)
(***************************************************************************)
SupportCount(oht, S) ==
    Cardinality({i \in 1..Len(oht.rows) : S \subseteq oht.rows[i]})

\* apriori(oht, min_support, use_colnames=True): every itemset whose support
\* (the fraction of rows holding all its items) is >= min_support, by size and
\* then in column order
apriori(oht, min_support) ==
    LET n == Len(oht.index)
        frequent == {S \in (SUBSET Range(oht.columns)) \ {{}} :
                        FLe(min_support, <<SupportCount(oht, S), n>>)}
        Key(S) == ComboKey(S, oht.columns, 1)
        ordered == OrderSetBy(frequent, Key)
    IN  AsList([k \in 1..Len(ordered) |->
            [itemsets |-> ordered[k],
             support |-> <<SupportCount(oht, ordered[k]), n>>]])

\* the support count recorded for an itemset in the frequent itemsets
LookupCount(frequent_itemsets, S) ==
    frequent_itemsets[CHOOSE k \in 1..Len(frequent_itemsets) :
                        frequent_itemsets[k].itemsets = S].support[1]

\* the rules of one frequent itemset: every split into a non-empty antecedent
\* and consequent, larger antecedents first, kept when confidence >= threshold
rules_of_itemset(frequent_itemsets, entry, min_threshold, order) ==
    LET items == entry.itemsets
        n == entry.support[2]
        cAC == entry.support[1]
        Key(c) == ComboKey(c, order, -1)
        splits == OrderSetBy((SUBSET items) \ {{}, items}, Key)
        rule(c) ==
            LET cA == LookupCount(frequent_itemsets, c)
                cC == LookupCount(frequent_itemsets, items \ c)
            IN  [antecedents |-> c,
                 consequents |-> items \ c,
                 support |-> <<cAC, n>>,
                 confidence |-> <<cAC, cA>>,
                 lift |-> <<cAC * n, cA * cC>>]
        all == AsList([k \in 1..Len(splits) |-> rule(splits[k])])
        Meets(r) == FLe(min_threshold, r.confidence)
    IN  Filter(all, Meets)

\* association_rules(frequent_itemsets, metric="confidence", min_threshold)
association_rules(frequent_itemsets, min_threshold, order) ==
    Flatten([k \in 1..Len(frequent_itemsets) |->
        IF Cardinality(frequent_itemsets[k].itemsets) >= 2
        THEN rules_of_itemset(frequent_itemsets, frequent_itemsets[k],
                              min_threshold, order)
        ELSE <<>>])

\* variant with a seeded fault: sorted by confidence alone
RuleBefore_confidence_only(a, b) == FLt(b.confidence, a.confidence)

\* the order of rules.sort_values(['confidence', 'lift'], ascending=[False, False])
RuleBefore(a, b) ==
    \/ FLt(b.confidence, a.confidence)
    \/ FEq(a.confidence, b.confidence) /\ FLt(b.lift, a.lift)

sort_rules(rules) == StableSort(rules, RuleBefore)

\* variant with a seeded fault: five transactions still count as sparse
adjusted_min_support_upto_five(total_transactions, min_support) ==
    IF total_transactions <= 5 THEN FMax(<<1, 20>>, FHalf(min_support))
    ELSE min_support

adjusted_min_support(total_transactions, min_support) ==
    IF total_transactions < 5 THEN FMax(<<1, 20>>, FHalf(min_support))
    ELSE min_support

adjusted_min_confidence(total_transactions, min_confidence) ==
    IF total_transactions < 5 THEN FMax(<<1, 10>>, FHalf(min_confidence))
    ELSE min_confidence

\* list(oht.sum().sort_values(ascending=False).head(5).index)
top_products_of(oht) ==
    LET Count(c) == SupportCount(oht, {c})
        More(a, b) == Count(a) > Count(b)
    IN  Slice(StableSort(oht.columns, More), 5)

\* generate_association_rules, from what prepare_transaction_data returned to
\* it at line 255
generate_association_rules(prepared, min_support, min_confidence, order) ==
    LET oht == prepared.oht
        total_transactions == Len(oht.index)
        min_s == adjusted_min_support(total_transactions, min_support)
        min_c == adjusted_min_confidence(total_transactions, min_confidence)
    IN
    IF FrameEmpty(oht)
    THEN [error |-> "no transaction data", frequent_itemsets |-> <<>>,
          rules |-> <<>>, summary |-> <<>>]
    ELSE IF ~FLt(<<0, 1>>, min_s)
    THEN \* apriori raises ValueError on min_support <= 0, caught at line 311
         [error |-> "exception", frequent_itemsets |-> <<>>,
          rules |-> <<>>, summary |-> <<>>]
    ELSE
    LET frequent_itemsets == apriori(oht, min_s) IN
    IF frequent_itemsets = <<>>
    THEN [error |-> "no frequent itemsets", frequent_itemsets |-> <<>>,
          rules |-> <<>>,
          summary |-> [total_transactions |-> Len(oht.index),
                       total_products |-> Len(oht.columns)]]
    ELSE
    LET found == association_rules(frequent_itemsets, min_c, order)
        rules == IF found # <<>> THEN sort_rules(found) ELSE found
    IN  [frequent_itemsets |-> frequent_itemsets,
         rules |-> rules,
         summary |-> [total_transactions |-> Len(oht.index),
                      total_products |-> Len(oht.columns),
                      frequent_itemsets_count |-> Len(frequent_itemsets),
                      rules_count |-> Len(rules),
                      min_support |-> min_s,
                      min_confidence |-> min_c,
                      top_products |-> top_products_of(oht)],
         group_info |-> prepared.group_info]

(***************************************************************************)
(* Recommender: recommend_products                                         *)
(***************************************************************************)
recommendation(rule, consequent, lhs) ==
    [product |-> consequent,
     confidence |-> RoundHalfEven(rule.confidence, 1000),
     lift |-> RoundHalfEven(rule.lift, 1000),
     support |-> RoundHalfEven(rule.support, 1000),
     rule |-> [lhs |-> lhs, rhs |-> consequent]]

\* lines 344-357: the rules whose antecedents hold the product
direct_recommendations(rules, product_name, order) ==
    Flatten([k \in 1..Len(rules) |->
        LET consequents == ToList(rules[k].consequents, order) IN
        IF product_name \in rules[k].antecedents
           /\ product_name \notin rules[k].consequents
        THEN [j \in 1..Len(consequents) |->
                recommendation(rules[k], consequents[j], <<product_name>>)]
        ELSE <<>>])

\* variant with a seeded fault: the fallback without the test consequent != product_name
RECURSIVE fallback_consequents_keeps_self(_, _, _, _, _, _)
fallback_consequents_keeps_self(rule, lhs, consequents, j, recs, q) ==
    IF j > Len(consequents) THEN recs
    ELSE LET more == Append(recs, recommendation(rule, consequents[j], lhs)) IN
         IF Len(more) >= q.max_recommendations THEN more
         ELSE fallback_consequents_keeps_self(rule, lhs, consequents, j + 1, more, q)

\* lines 369-380: the inner loop over one rule's consequents, from the j-th on
RECURSIVE fallback_consequents(_, _, _, _, _, _)
fallback_consequents(rule, lhs, consequents, j, recs, q) ==
    IF j > Len(consequents) THEN recs
    ELSE IF consequents[j] # q.product_name
    THEN LET more == Append(recs, recommendation(rule, consequents[j], lhs)) IN
         IF Len(more) >= q.max_recommendations THEN more
         ELSE fallback_consequents(rule, lhs, consequents, j + 1, more, q)
    ELSE fallback_consequents(rule, lhs, consequents, j + 1, recs, q)

\* lines 364-383: the outer loop over the rules, from the k-th on
RECURSIVE fallback_recommendations(_, _, _, _, _)
fallback_recommendations(rules, k, recs, q, order) ==
    IF k > Len(rules) THEN recs
    ELSE LET after == fallback_consequents(rules[k],
                          ToList(rules[k].antecedents, order),
                          ToList(rules[k].consequents, order), 1, recs, q)
         IN  IF Len(after) >= q.max_recommendations THEN after
             ELSE fallback_recommendations(rules, k + 1, after, q, order)

\* variant with a seeded fault: no fallback when there is no direct rule
collect_direct_only(rules, q, order) ==
    direct_recommendations(rules, q.product_name, order)

\* lines 341-383: the candidates, direct ones or else the fallback
collect_recommendations(rules, q, order) ==
    LET direct == direct_recommendations(rules, q.product_name, order) IN
    IF Len(direct) = 0 /\ Len(rules) > 0
    THEN fallback_recommendations(rules, 1, direct, q, order)
    ELSE direct

RecBefore(a, b) == a.confidence > b.confidence

\* variant with a seeded fault: the slice one short
rank_one_short(recs, max_recommendations) ==
    Slice(StableSort(recs, RecBefore), max_recommendations - 1)

\* variant with a seeded fault: an unstable sort, ties come out in reverse
rank_reversing_ties(recs, max_recommendations) ==
    Slice(StableSort([i \in 1..Len(recs) |-> recs[Len(recs) + 1 - i]], RecBefore),
          max_recommendations)

\* line 386: sorted(..., key=confidence, reverse=True)[:max_recommendations]
rank_recommendations(recs, max_recommendations) ==
    Slice(StableSort(recs, RecBefore), max_recommendations)

\* what recommend_products returns, given what generate_association_rules did
recommend_products(rules_result_, q, order) ==
    IF "error" \in DOMAIN rules_result_
    THEN [error |-> rules_result_.error, recommendations |-> <<>>,
          product_name |-> q.product_name]
    ELSE IF rules_result_.rules = <<>>
    THEN [message |-> "no recommendation rules", recommendations |-> <<>>,
          product_name |-> q.product_name]
    ELSE
    LET recommendations ==
            rank_recommendations(
                collect_recommendations(rules_result_.rules, q, order),
                q.max_recommendations)
    IN  [product_name |-> q.product_name,
         recommendations |-> recommendations,
         total_recommendations |-> Len(recommendations),
         min_confidence |-> q.min_confidence,
         learning_groups |-> rules_result_.group_info,
         summary |-> rules_result_.summary]

\* GET /recommend/{product_name}: an error result becomes HTTPException(400)
get_product_recommendations(result) ==
    IF "error" \in DOMAIN result
    THEN [status |-> 400, detail |-> result.error, result |-> result]
    ELSE [status |-> 200, body |-> result, result |-> result]

(***************************************************************************)
(* GET /groups/info                                                        *)
(***************************************************************************)
get_groups_info(events, time_window) ==
    LET prepared == prepare_transaction_data(events, time_window)
        oht == prepared.oht
        group_info == prepared.group_info
        groups_info == [k \in 1..Len(group_info) |->
            [group_id |-> group_info[k].group_id,
             group_type |-> "time",
             product_count |-> Len(group_info[k].products),
             products |-> [j \in 1..Len(group_info[k].products) |->
                             group_info[k].products[j].product_name],
             categories |-> {group_info[k].products[j].category :
                                j \in 1..Len(group_info[k].products)}]]
    IN
    IF FrameEmpty(oht)
    THEN [status |-> 200,
          body |-> [error |-> "no group data", total_groups |-> 0,
                    groups |-> <<>>, group_types |-> <<>>]]
    ELSE [status |-> 200,
          body |-> [total_groups |-> Len(groups_info),
                    groups |-> groups_info,
                    group_types |-> [session_groups |-> 0,
                                     time_groups |-> Len(groups_info),
                                     total_groups |-> Len(groups_info)],
                    summary |-> [total_transactions |-> Len(oht.index),
                                 total_products |-> Len(oht.columns)]]]

(***************************************************************************)
(* GET /analytics/products                                                 *)
(***************************************************************************)
MinOf(s) == CHOOSE x \in Range(s) : \A y \in Range(s) : x <= y
MaxOf(s) == CHOOSE x \in Range(s) : \A y \in Range(s) : x >= y

\* product_stats[product]["prices"]: line 447 appends every event's price
product_prices(events, product) ==
    LET OfProduct(e) == e.product_name = product
        mine == Filter(events, OfProduct)
    IN  [i \in 1..Len(mine) |-> mine[i].price]

\* all_prices: lines 451-452 keep the prices > 0
all_prices_of(events) ==
    LET Positive(e) == e.price > 0
        priced == Filter(events, Positive)
    IN  [i \in 1..Len(priced) |-> priced[i].price]

product_entry(events, product) ==
    LET OfProduct(e) == e.product_name = product
        mine == Filter(events, OfProduct)
        prices == product_prices(events, product)
    IN  [product_name |-> product,
         clicks |-> Len(mine),
         categories |-> {mine[i].category : i \in 1..Len(mine)},
         average_price |-> IF prices # <<>>
                           THEN RoundHalfEven(<<SumSeq(prices), Len(prices)>>, 100)
                           ELSE 0,
         price_range |-> [min |-> IF prices # <<>> THEN MinOf(prices) ELSE 0,
                          max |-> IF prices # <<>> THEN MaxOf(prices) ELSE 0]]

MoreClicks(a, b) == a.clicks > b.clicks

get_product_analytics(events) ==
    IF events = <<>>
    THEN [status |-> 200,
          body |-> [message |-> "no click events", total_products |-> 0,
                    total_clicks |-> 0, top_products |-> <<>>,
                    category_distribution |-> <<>>, price_statistics |-> <<>>]]
    ELSE
    LET products == Dedup([i \in 1..Len(events) |-> events[i].product_name])
        categories == {events[i].category : i \in 1..Len(events)}
        entries == [k \in 1..Len(products) |-> product_entry(events, products[k])]
        all_prices == all_prices_of(events)
    IN  [status |-> 200,
         body |-> [total_products |-> Len(products),
                   total_clicks |-> Len(events),
                   top_products |-> Slice(StableSort(entries, MoreClicks), 10),
                   category_distribution |->
                       [c \in categories |->
                           Cardinality({i \in 1..Len(events) : events[i].category = c})],
                   price_statistics |->
                       IF all_prices # <<>>
                       THEN [average |-> RoundHalfEven(
                                <<SumSeq(all_prices), Len(all_prices)>>, 100),
                             min |-> MinOf(all_prices),
                             max |-> MaxOf(all_prices),
                             count |-> Len(all_prices)]
                       ELSE <<>>]]

(***************************************************************************)
(* Redis and Kafka                                                         *)
(***************************************************************************)
\* json.dumps(event_data, ensure_ascii=False): the stored string of an event
json_dumps(event) == [json |-> event]

\* json.loads of a stored string
json_loads(item) == item.json

\* get_redis_client: the client when ping answers, None otherwise
get_redis_client(up) == IF up THEN "client" ELSE "none"

\* variant with a seeded fault: the list is read whether or not a client was obtained
load_events_ignoring_client(up, list) ==
    [i \in 1..Len(list) |-> json_loads(list[i])]

\* load_events_from_redis: [] without a client, else lrange(REDIS_KEY, 0, -1) decoded
load_events_from_redis(up, list) ==
    IF get_redis_client(up) = "none" THEN <<>>
    ELSE [i \in 1..Len(list) |-> json_loads(list[i])]

\* line 78: value_deserializer, json.loads(x.decode('utf-8')) of a message's bytes
Decodes(payload) == payload.kind = "json"

(***************************************************************************)
(* Bounds and input sets                                                   *)
(***************************************************************************)
MaxMessages == 3
MaxEvents == 4
MaxMined == 5
MaxBuilt == 3
MaxClicks == 3

Event(name, category, price, timestamp) ==
    [product_name |-> name, category |-> category, price |-> price,
     timestamp |-> timestamp]

Stamp(second) == <<2024, 1, 1, 0, 0, second>>

Orders(S) ==
    {f \in [1..Cardinality(S) -> S] : \A i, j \in DOMAIN f : i # j => f[i] # f[j]}

\* lists of at most n clicks whose timestamps fall in successive 5-second
\* buckets, newest first: each click is in the bucket of the next or in the one after
Timelines(names, n) ==
    UNION {
        {[i \in 1..k |->
            json_dumps(Event(who[i], "c1", 10,
                Stamp(5 * Cardinality({j \in (i + 1)..k : step[j]}))))] :
            who \in [1..k -> names], step \in [2..k -> BOOLEAN]}
        : k \in 0..n}

\* every list of at most n of the given events
ListsOf(events, n) ==
    UNION {{[i \in 1..k |-> json_dumps(e[i])] : e \in [1..k -> events]} : k \in 0..n}

NoRequest ==
    [kind |-> "none", product_name |-> "", min_support |-> <<1, 10>>,
     min_confidence |-> <<3, 10>>, max_recommendations |-> 5, time_window |-> 5]

Request(kind, product_name, min_support, min_confidence, max_recommendations, time_window) ==
    [kind |-> kind, product_name |-> product_name, min_support |-> min_support,
     min_confidence |-> min_confidence,
     max_recommendations |-> max_recommendations, time_window |-> time_window]

Nothing == [status |-> 0]

(***************************************************************************)
(* The ingestion worker: start_kafka_consumer                              *)
(***************************************************************************)
\* a message whose bytes are the JSON text of an event, and one whose bytes are not
Payload(event) == [kind |-> "json", event |-> event]
Garbage == [kind |-> "garbage"]

\* the upstream producer publishes a message: the JSON text of a click of the
\* product at that second, or bytes that are no JSON text
Produce(well_formed, name, second) ==
    /\ Len(topic) < MaxMessages
    /\ topic' = Append(topic, IF well_formed
                              THEN Payload(Event(name, "c1", 10, Stamp(second)))
                              ELSE Garbage)
    /\ UNCHANGED <<offset, wpc, wclient, redisUp, store, hashOrder,
                   qpc, req, readLog, prepared_data, rules_result, response>>

\* lines 74-85: the consumer is created (or fails), then the Redis client is taken
WorkerStart(kafkaUp) ==
    /\ wpc = "init"
    /\ wpc' = IF kafkaUp THEN "loop" ELSE "stopped"
    /\ wclient' = IF kafkaUp THEN get_redis_client(redisUp) ELSE wclient
    /\ UNCHANGED <<topic, offset, redisUp, store, hashOrder,
                   qpc, req, readLog, prepared_data, rules_result, response>>

\* what one turn of the loop at lines 87-95 leaves in the store
\* variant with a seeded fault: rpush, the new entry goes to the tail
store_after_message_at_tail(payload, client, up, list) ==
    IF Decodes(payload) /\ client = "client" /\ up
    THEN list \o <<json_dumps(payload.event)>>
    ELSE list

store_after_message(payload, client, up, list) ==
    IF Decodes(payload) /\ client = "client" /\ up
    THEN <<json_dumps(payload.event)>> \o list
    ELSE list

\* where the worker is after fetching a message: an exception of the
\* deserializer is raised by the iteration at line 87, outside the inner try,
\* and ends the function at line 97; one of lpush is caught at line 94
worker_after_message(payload) ==
    IF Decodes(payload) THEN "loop" ELSE "stopped"

\* lines 87-95: the worker fetches the next message and handles it
WorkerMessage ==
    /\ wpc = "loop"
    /\ offset < Len(topic)
    /\ offset' = offset + 1
    /\ store' = store_after_message(topic[offset + 1], wclient, redisUp, store)
    /\ wpc' = worker_after_message(topic[offset + 1])
    /\ UNCHANGED <<topic, wclient, redisUp, hashOrder,
                   qpc, req, readLog, prepared_data, rules_result, response>>

\* the Redis server stops or resumes answering (its list is kept)
RedisToggle ==
    /\ redisUp' = ~redisUp
    /\ UNCHANGED <<topic, offset, wpc, wclient, store, hashOrder,
                   qpc, req, readLog, prepared_data, rules_result, response>>

(***************************************************************************)
(* The requests.  A request reads the store (load_events_from_redis) and   *)
(* then computes its answer from what it read; the worker may run between. *)
(***************************************************************************)
ReadEntry ==
    [reachable |-> redisUp, list |-> store,
     events |-> load_events_from_redis(redisUp, store)]

Begin(kind, min_support, min_confidence, time_window) ==
    /\ qpc = "idle"
    /\ qpc' = "loaded"
    /\ req' = Request(kind, "", min_support, min_confidence, 5, time_window)
    /\ readLog' = <<ReadEntry>>
    /\ prepared_data' = Nothing
    /\ rules_result' = Nothing
    /\ response' = Nothing
    /\ UNCHANGED <<topic, offset, wpc, wclient, redisUp, store, hashOrder>>

\* GET /recommend/{product_name}; product_name and max_recommendations are
\* drawn where the code first reads them (line 325 on)
BeginRecommend(min_confidence, time_window) ==
    Begin("recommend", <<1, 10>>, min_confidence, time_window)

BeginGroups(time_window) ==
    Begin("groups", <<1, 10>>, <<3, 10>>, time_window)

BeginAnalytics == Begin("analytics", <<1, 10>>, <<3, 10>>, 5)

\* generate_association_rules called with all its parameters
BeginMine(min_support, min_confidence, time_window) ==
    Begin("mine", min_support, min_confidence, time_window)

\* variant with a seeded fault: each step of a request reads the store again
Snapshot_read_again == load_events_from_redis(redisUp, store)

\* line 158 / 422: events, the one list the request read
Snapshot == readLog[1].events

\* lines 252-318: generate_association_rules on the events read; line 323 passes
\* no min_support, so that a recommendation mines with the default 0.1
Mine ==
    /\ qpc = "loaded" /\ req.kind \in {"recommend", "mine"}
    /\ qpc' = IF req.kind = "mine" THEN "idle" ELSE "mined"
    /\ prepared_data' = prepare_transaction_data(Snapshot, req.time_window)
    /\ rules_result' = generate_association_rules(prepared_data', req.min_support,
                           req.min_confidence, hashOrder)
    /\ response' = IF req.kind = "mine" THEN [status |-> 200] ELSE response
    /\ UNCHANGED <<topic, offset, wpc, wclient, redisUp, store, hashOrder,
                   req, readLog>>

\* lines 325-405 and 506-511: the recommendations for the product
RespondRecommend(product_name, max_recommendations) ==
    /\ qpc = "mined"
    /\ qpc' = "idle"
    /\ req' = [req EXCEPT !.product_name = product_name,
                          !.max_recommendations = max_recommendations]
    /\ response' = get_product_recommendations(
                       recommend_products(rules_result, req', hashOrder))
    /\ UNCHANGED <<topic, offset, wpc, wclient, redisUp, store, hashOrder,
                   readLog, prepared_data, rules_result>>

RespondGroups ==
    /\ qpc = "loaded" /\ req.kind = "groups"
    /\ qpc' = "idle"
    /\ prepared_data' = prepare_transaction_data(Snapshot, req.time_window)
    /\ response' = get_groups_info(Snapshot, req.time_window)
    /\ UNCHANGED <<topic, offset, wpc, wclient, redisUp, store, hashOrder,
                   req, readLog, rules_result>>

RespondAnalytics ==
    /\ qpc = "loaded" /\ req.kind = "analytics"
    /\ qpc' = "idle"
    /\ response' = get_product_analytics(Snapshot)
    /\ UNCHANGED <<topic, offset, wpc, wclient, redisUp, store, hashOrder,
                   req, readLog, prepared_data, rules_result>>

(***************************************************************************)
(* Specifications                                                          *)
(***************************************************************************)
InitRequests ==
    /\ qpc = "idle"
    /\ req = NoRequest
    /\ readLog = <<>>
    /\ prepared_data = Nothing
    /\ rules_result = Nothing
    /\ response = Nothing

\* the whole service: producer, worker, Redis outages and requests
Init ==
    /\ topic = <<>>
    /\ offset = 0
    /\ wpc = "init"
    /\ wclient = "none"
    /\ redisUp \in BOOLEAN
    /\ store = <<>>
    /\ hashOrder \in Orders({"A", "B"})
    /\ InitRequests

Next ==
    \/ \E name \in {"A", "B"} : Produce(TRUE, name, 1)
    \/ Produce(FALSE, "", 0)
    \/ \E kafkaUp \in BOOLEAN : WorkerStart(kafkaUp)
    \/ WorkerMessage
    \/ RedisToggle
    \/ BeginRecommend(<<3, 10>>, 5)
    \/ BeginGroups(5)
    \/ BeginAnalytics
    \/ Mine
    \/ \E p \in {"A", "Z"}, m \in {1, 5} : RespondRecommend(p, m)
    \/ RespondGroups
    \/ RespondAnalytics

Spec == Init /\ [][Next]_vars

\* a running service whose store holds some list of events
InitStored(lists, orders) ==
    /\ topic = <<>>
    /\ offset = 0
    /\ wpc = "loop"
    /\ wclient = "client"
    /\ redisUp = TRUE
    /\ store \in lists
    /\ hashOrder \in orders
    /\ InitRequests

\* recommendations over three products clicked in up to MaxEvents events
InitRecommend == InitStored(Timelines({"A", "B", "C"}, MaxEvents),
               {<<"A", "B", "C">>, <<"C", "A", "B">>})

NextRecommend ==
    \/ \E c \in {<<3, 10>>, <<9, 10>>} : BeginRecommend(c, 5)
    \/ Mine
    \/ \E p \in {"A", "Z"}, m \in {-1, 0, 1, 2} : RespondRecommend(p, m)

SpecRecommend == InitRecommend /\ [][NextRecommend]_vars

\* mining over two products clicked in up to MaxMined events
InitMine == InitStored(Timelines({"A", "B"}, MaxMined), Orders({"A", "B"}))

NextMine ==
    \/ \E s \in {<<1, 20>>, <<1, 2>>}, c \in {<<1, 10>>, <<9, 10>>}, w \in {5, 10} :
          BeginMine(s, c, w)
    \/ Mine

SpecMine == InitMine /\ [][NextMine]_vars

\* grouping of up to MaxBuilt events, among them a product named like the id
\* column and an event without a full timestamp
BuiltEvents ==
    {Event(n, "c1", 10, t) :
        n \in {"A", "TransactionID"},
        t \in {Stamp(1), Stamp(7), <<2024, 1, 1, 0, 1, 1>>, <<2024, 1, 1>>}}

InitBuild == InitStored(ListsOf(BuiltEvents, MaxBuilt), Orders({"A", "TransactionID"}))

NextBuild ==
    \/ \E w \in {0 - 5, 0, 5, 10} : BeginGroups(w)
    \/ RespondGroups

SpecBuild == InitBuild /\ [][NextBuild]_vars

\* analytics of up to MaxClicks events with zero and non-zero prices
ClickedEvents ==
    {Event(n, c, p, Stamp(1)) :
        n \in {"A", "B"}, c \in {"c1", "c2"}, p \in {0, 10, 30}}

InitAnalytics == InitStored(ListsOf(ClickedEvents, MaxClicks), Orders({"A", "B"}))

NextAnalytics ==
    \/ BeginAnalytics
    \/ RespondAnalytics

SpecAnalytics == InitAnalytics /\ [][NextAnalytics]_vars

(***************************************************************************)
(* Properties of the recommender (SpecRecommend)                           *)
(***************************************************************************)
RecommendAnswered == qpc = "idle" /\ req.kind = "recommend" /\ response.status # 0

Recs == response.result.recommendations

MinedRules == rules_result.rules

InNoRule(product) ==
    \A k \in 1..Len(MinedRules) :
        product \notin MinedRules[k].antecedents \cup MinedRules[k].consequents

InNoAntecedent(product) ==
    \A k \in 1..Len(MinedRules) : product \notin MinedRules[k].antecedents

\* the entry is a consequent of some rule, labelled with that rule's antecedents
FromSomeRule(rec) ==
    \E k \in 1..Len(MinedRules) :
        /\ rec.product \in MinedRules[k].consequents
        /\ rec.rule.lhs = ToList(MinedRules[k].antecedents, hashOrder)
        /\ rec.confidence = RoundHalfEven(MinedRules[k].confidence, 1000)

\* C1: no entry of the list returned by recommend_products has the queried
\* product as its 'product', whether it comes from the direct rules or the fallback
C1_SelfExclusion ==
    RecommendAnswered =>
        \A i \in 1..Len(Recs) : Recs[i].product # req.product_name

\* the fallback ran over rules that have the queried product as a consequent
C1_Witness ==
    /\ RecommendAnswered
    /\ MinedRules # <<>>
    /\ InNoAntecedent(req.product_name)
    /\ \E k \in 1..Len(MinedRules) : req.product_name \in MinedRules[k].consequents

\* C2 as stated: when the queried product is in no rule and rules exist, the
\* answer is a non-empty list of at most max_recommendations fallback entries,
\* none of them the queried product
C2_Original ==
    (RecommendAnswered /\ MinedRules # <<>> /\ InNoRule(req.product_name)) =>
        /\ Len(Recs) >= 1
        /\ Len(Recs) <= req.max_recommendations
        /\ \A i \in 1..Len(Recs) :
              FromSomeRule(Recs[i]) /\ Recs[i].product # req.product_name

\* C2 (amended): the same, for max_recommendations >= 1
C2_Fallback ==
    (/\ RecommendAnswered /\ MinedRules # <<>> /\ InNoRule(req.product_name)
     /\ req.max_recommendations >= 1) =>
        /\ Len(Recs) >= 1
        /\ Len(Recs) <= req.max_recommendations
        /\ \A i \in 1..Len(Recs) :
              FromSomeRule(Recs[i]) /\ Recs[i].product # req.product_name

\* an unseen product is answered with max_recommendations entries out of more rules
C2_Witness ==
    /\ RecommendAnswered /\ MinedRules # <<>> /\ InNoRule(req.product_name)
    /\ req.max_recommendations >= 1
    /\ Len(Recs) = req.max_recommendations
    /\ Len(MinedRules) > req.max_recommendations

\* C3 as stated: whenever rules exist and max_results >= 1, every queried
\* product gets at least one recommendation
C3_Original ==
    (RecommendAnswered /\ MinedRules # <<>> /\ req.max_recommendations >= 1) =>
        Len(Recs) >= 1

\* C3 (amended): whenever some rule has a consequent other than the queried
\* product and max_results >= 1, the queried product gets at least one
\* recommendation
C3_NonEmpty ==
    (/\ RecommendAnswered /\ MinedRules # <<>> /\ req.max_recommendations >= 1
     /\ \E k \in 1..Len(MinedRules) :
            MinedRules[k].consequents # {req.product_name}) =>
        Len(Recs) >= 1

\* a product that was clicked but heads no rule is answered from the fallback
C3_Witness ==
    /\ RecommendAnswered /\ MinedRules # <<>> /\ req.max_recommendations >= 1
    /\ \E i \in 1..Len(readLog[1].events) :
            readLog[1].events[i].product_name = req.product_name
    /\ InNoAntecedent(req.product_name)
    /\ Len(Recs) >= 1

\* C7: in the rules returned by generate_association_rules, a rule that
\* precedes another has a greater confidence, or the same confidence and a
\* lift at least as great
C7_RuleOrder ==
    "rules" \in DOMAIN rules_result =>
        \A i, j \in 1..Len(MinedRules) :
            i < j =>
                \/ FLt(MinedRules[j].confidence, MinedRules[i].confidence)
                \/ /\ FEq(MinedRules[i].confidence, MinedRules[j].confidence)
                   /\ FLe(MinedRules[j].lift, MinedRules[i].lift)

\* two rules of equal confidence are ordered by their different lifts
C7_Witness ==
    /\ "rules" \in DOMAIN rules_result
    /\ \E i, j \in 1..Len(MinedRules) :
          /\ i < j
          /\ FEq(MinedRules[i].confidence, MinedRules[j].confidence)
          /\ FLt(MinedRules[j].lift, MinedRules[i].lift)

\* the candidates in the order they were collected from the rules
Collected == collect_recommendations(MinedRules, req, hashOrder)

\* the candidates by decreasing confidence, those of one confidence in the
\* order they have in recs
ByConfidence(recs) ==
    LET Negated(v) == 0 - v
        values == OrderSetBy({recs[i].confidence : i \in 1..Len(recs)}, Negated)
    IN  Flatten([k \in 1..Len(values) |->
            LET Same(rec) == rec.confidence = values[k] IN Filter(recs, Same)])

\* the list is the first entries of the candidates ordered by confidence
LeadsByConfidence(list, recs) ==
    /\ Len(list) <= Len(recs)
    /\ list = SubSeq(ByConfidence(recs), 1, Len(list))

\* C12 as stated: for every integer max_recommendations the list is ordered by
\* confidence descending, ties in the order collected, and has at most
\* max_recommendations entries
C12_Original ==
    RecommendAnswered =>
        /\ LeadsByConfidence(Recs, Collected)
        /\ Len(Recs) <= req.max_recommendations

\* C12 (amended): the list is ordered by confidence descending with ties in
\* the order collected; for max_recommendations >= 0 it is the first
\* max_recommendations candidates (all of them when there are fewer), for a
\* negative max_recommendations it is the candidates without the last
\* -max_recommendations
C12_Ranking ==
    RecommendAnswered =>
        /\ LeadsByConfidence(Recs, Collected)
        /\ \A i, j \in 1..Len(Recs) :
              i < j => Recs[i].confidence >= Recs[j].confidence
        /\ Len(Recs) =
              IF req.max_recommendations >= 0
              THEN IF req.max_recommendations < Len(Collected)
                   THEN req.max_recommendations ELSE Len(Collected)
              ELSE IF Len(Collected) + req.max_recommendations > 0
                   THEN Len(Collected) + req.max_recommendations ELSE 0

\* two different candidates of equal confidence are returned and a third one
\* is cut off
C12_Witness ==
    /\ RecommendAnswered
    /\ req.max_recommendations >= 0
    /\ Len(Collected) > Len(Recs)
    /\ \E i, j \in 1..Len(Recs) :
          /\ i < j
          /\ Recs[i].confidence = Recs[j].confidence
          /\ Recs[i] # Recs[j]

(***************************************************************************)
(* Properties of the rule miner (SpecMine)                                 *)
(***************************************************************************)
\* x is the greater of a and b
IsMaxOf(x, a, b) == (FEq(x, a) \/ FEq(x, b)) /\ FLe(a, x) /\ FLe(b, x)

ThresholdsReported ==
    /\ "summary" \in DOMAIN rules_result
    /\ "min_support" \in DOMAIN rules_result.summary

\* C8: the thresholds reported in the summary, and used for mining, are
\* max(0.05, min_support * 0.5) and max(0.1, min_confidence * 0.5) when there
\* are fewer than 5 transactions, and the requested ones when there are 5 or more
C8_Thresholds ==
    ThresholdsReported =>
        LET summary == rules_result.summary
            oht == prepared_data.oht
            reported == {rules_result.frequent_itemsets[k].itemsets :
                            k \in 1..Len(rules_result.frequent_itemsets)}
        IN  /\ IF Len(oht.index) < 5
               THEN /\ IsMaxOf(summary.min_support, <<1, 20>>,
                               <<req.min_support[1], 2 * req.min_support[2]>>)
                    /\ IsMaxOf(summary.min_confidence, <<1, 10>>,
                               <<req.min_confidence[1], 2 * req.min_confidence[2]>>)
               ELSE /\ summary.min_support = req.min_support
                    /\ summary.min_confidence = req.min_confidence
            /\ \A S \in (SUBSET Range(oht.columns)) \ {{}} :
                  S \in reported <=>
                     summary.min_support[1] * Len(oht.index)
                        <= SupportCount(oht, S) * summary.min_support[2]
            /\ \A k \in 1..Len(MinedRules) :
                  FLe(summary.min_confidence, MinedRules[k].confidence)

\* five transactions are mined with the requested thresholds, where the relaxed
\* ones would have been lower
C8_Witness ==
    /\ ThresholdsReported
    /\ Len(prepared_data.oht.index) >= 5
    /\ rules_result.summary.min_support = req.min_support
    /\ FLt(<<1, 20>>, req.min_support)
    /\ FLt(<<1, 10>>, req.min_confidence)

SummaryFields ==
    {"total_transactions", "total_products", "frequent_itemsets_count",
     "rules_count", "min_support", "min_confidence", "top_products"}

MiningAnswered == qpc = "idle" /\ req.kind = "mine" /\ response.status # 0

\* C11: every result of generate_association_rules, the error results
\* included, carries a summary with the transaction count, the product count,
\* the frequent-itemset count, the rule count, the thresholds used and the
\* top products
C11_SummaryComplete ==
    MiningAnswered =>
        /\ "summary" \in DOMAIN rules_result
        /\ SummaryFields \subseteq DOMAIN rules_result.summary

\* the same for the results without an error: the summary is complete and its
\* counts are those of the matrix, the itemsets and the rules
C11_SummaryOfMinedRules ==
    (MiningAnswered /\ "error" \notin DOMAIN rules_result) =>
        LET summary == rules_result.summary
            oht == prepared_data.oht
            top == summary.top_products
        IN  /\ SummaryFields \subseteq DOMAIN summary
            /\ summary.total_transactions = Len(oht.index)
            /\ summary.total_products = Len(oht.columns)
            /\ summary.frequent_itemsets_count = Len(rules_result.frequent_itemsets)
            /\ summary.rules_count = Len(rules_result.rules)
            /\ Len(top) <= 5
            /\ \A i, j \in 1..Len(top) :
                  i < j => SupportCount(oht, {top[i]}) >= SupportCount(oht, {top[j]})
            /\ \A c \in Range(oht.columns) \ Range(top) : \A i \in 1..Len(top) :
                  SupportCount(oht, {top[i]}) >= SupportCount(oht, {c})

(***************************************************************************)
(* Properties of the transaction builder (SpecBuild)                       *)
(***************************************************************************)
GroupsAnswered == qpc = "idle" /\ req.kind = "groups" /\ response.status # 0

\* the matrix has one row per time group of the events, its columns are the
\* product names of the events, no group lists a product twice, and a cell is
\* true exactly when the product was clicked in the group
MatrixMatches(events, time_window, built) ==
    LET oht == built.oht
        info == built.group_info
        gids == {group_id_of(events[i], time_window) : i \in 1..Len(events)}
    IN  /\ Len(oht.index) = Cardinality(gids)
        /\ Len(info) = Cardinality(gids)
        /\ Range(oht.columns) = {events[i].product_name : i \in 1..Len(events)}
        /\ \A k \in 1..Len(info) : \A a, b \in 1..Len(info[k].products) :
              a # b => info[k].products[a].product_name
                            # info[k].products[b].product_name
        /\ \A k \in 1..Len(oht.index) : \A c \in Range(oht.columns) :
              c \in oht.rows[k] <=>
                 \E i \in 1..Len(events) :
                    /\ group_id_of(events[i], time_window) = info[k].group_id
                    /\ events[i].product_name = c

\* C9: for every event sequence the matrix of prepare_transaction_data has one
\* row per non-empty time group, exactly the groups' product names as columns,
\* deduplicated groups, and cell(i,j) true iff product j is in group i
C9_Matrix ==
    (GroupsAnswered /\ req.time_window # 0) =>
        MatrixMatches(Snapshot, req.time_window, prepared_data)

\* the same, for the event sequences without a product named 'TransactionID'
C9_MatrixOfOtherNames ==
    (/\ GroupsAnswered /\ req.time_window # 0
     /\ \A i \in 1..Len(Snapshot) : Snapshot[i].product_name # "TransactionID") =>
        MatrixMatches(Snapshot, req.time_window, prepared_data)

\* what the claim groups by: the five leading fields and the window number of
\* the second for a full timestamp, one value for every shorter timestamp
BucketOf(event, window_seconds) ==
    LET ts == event.timestamp IN
    IF Len(ts) >= 6
    THEN <<ts[1], ts[2], ts[3], ts[4], ts[5], ts[6] \div window_seconds>>
    ELSE <<>>

\* the groups of the metadata are the buckets of the events: one group per
\* bucket, in order of first appearance, holding the events of the bucket,
\* and the group of the short timestamps is the one named 'unknown'
GroupedByBucket(events, window_seconds, built) ==
    LET info == built.group_info
        buckets == Dedup([i \in 1..Len(events) |->
                            BucketOf(events[i], window_seconds)])
    IN  /\ Len(info) = Len(buckets)
        /\ \A k \in 1..Len(info) :
              LET members == {i \in 1..Len(events) :
                                 BucketOf(events[i], window_seconds) = buckets[k]}
              IN  /\ info[k].total_events = Cardinality(members)
                  /\ {info[k].products[a].product_name :
                         a \in 1..Len(info[k].products)}
                        = {events[i].product_name : i \in members}
                  /\ (info[k].group_id = UnknownGroup) <=> (buckets[k] = <<>>)
        /\ \A k, l \in 1..Len(info) : k # l => info[k].group_id # info[l].group_id

\* the events with a short timestamp are together in one group named 'unknown'
ShortInUnknown(events, built) ==
    LET info == built.group_info
        short == {i \in 1..Len(events) : Len(events[i].timestamp) < 6}
    IN  short # {} =>
            /\ Cardinality({k \in 1..Len(info) : info[k].group_id = UnknownGroup}) = 1
            /\ \A k \in 1..Len(info) :
                  info[k].group_id = UnknownGroup =>
                      info[k].total_events = Cardinality(short)

BuilderReturned(built) == DOMAIN built = {"oht", "group_info"}

\* C13: two events with a full timestamp share a group iff they agree on
\* (year, month, day, hour, minute, floor(second / window_seconds)), every
\* event with a shorter timestamp is in the single group 'unknown', and for
\* every window_seconds the builder returns a matrix and metadata
C13_Grouping ==
    (GroupsAnswered /\ Snapshot # <<>>) =>
        /\ BuilderReturned(prepared_data)
        /\ ShortInUnknown(Snapshot, prepared_data)
        /\ req.time_window # 0 =>
              GroupedByBucket(Snapshot, req.time_window, prepared_data)

\* the same for the windows other than 0
C13_GroupingNonZeroWindow ==
    (GroupsAnswered /\ Snapshot # <<>> /\ req.time_window # 0) =>
        /\ BuilderReturned(prepared_data)
        /\ ShortInUnknown(Snapshot, prepared_data)
        /\ GroupedByBucket(Snapshot, req.time_window, prepared_data)

\* two events in one minute share a group under one window and not under another
C13_TwoWindows ==
    /\ GroupsAnswered
    /\ req.time_window = 5
    /\ \E i, j \in 1..Len(Snapshot) :
          /\ Len(Snapshot[i].timestamp) >= 6 /\ Len(Snapshot[j].timestamp) >= 6
          /\ BucketOf(Snapshot[i], 5) # BucketOf(Snapshot[j], 5)
          /\ BucketOf(Snapshot[i], 10) = BucketOf(Snapshot[j], 10)
    /\ \E i \in 1..Len(Snapshot) : Len(Snapshot[i].timestamp) < 6

(***************************************************************************)
(* Properties of the analytics (SpecAnalytics)                             *)
(***************************************************************************)
AnalyticsAnswered == qpc = "idle" /\ req.kind = "analytics" /\ response.status # 0

\* C10: a product's clicks count all its events, and its average, minimum and
\* maximum price are those of its events with a non-zero price
C10_PriceStats ==
    (AnalyticsAnswered /\ Snapshot # <<>>) =>
        \A k \in 1..Len(response.body.top_products) :
            LET entry == response.body.top_products[k]
                OfProduct(e) == e.product_name = entry.product_name
                Priced(e) == e.product_name = entry.product_name /\ e.price # 0
                clicked == Filter(Snapshot, OfProduct)
                priced == Filter(Snapshot, Priced)
                prices == [i \in 1..Len(priced) |-> priced[i].price]
            IN  /\ entry.clicks = Len(clicked)
                /\ entry.average_price =
                      IF prices = <<>> THEN 0
                      ELSE RoundHalfEven(<<SumSeq(prices), Len(prices)>>, 100)
                /\ entry.price_range.min = IF prices = <<>> THEN 0 ELSE MinOf(prices)
                /\ entry.price_range.max = IF prices = <<>> THEN 0 ELSE MaxOf(prices)

(***************************************************************************)
(* Properties of the service (Spec)                                        *)
(***************************************************************************)
\* C4: every message the worker has decoded and moved past is in the store
C4_AppendedBeforeConsumed ==
    \A i \in 1..offset :
        Decodes(topic[i]) =>
            Cardinality({j \in 1..Len(store) : store[j] = json_dumps(topic[i].event)})
                >= Cardinality({j \in 1..offset : topic[j] = topic[i]})

\* C5: after a malformed message the worker is still running
C5_WorkerSurvivesMalformed ==
    (\E i \in 1..offset : ~Decodes(topic[i])) => wpc = "loop"

\* C6: when the store is empty or unreachable the read yields no events, and
\* recommend and group_info return an error-carrying result with empty
\* collections and zero counts
C6_NoData ==
    (/\ qpc = "idle" /\ req.kind \in {"recommend", "groups"} /\ response.status # 0
     /\ (~readLog[1].reachable \/ readLog[1].list = <<>>)) =>
        /\ readLog[1].events = <<>>
        /\ req.kind = "recommend" =>
              /\ "error" \in DOMAIN response.result
              /\ response.result.recommendations = <<>>
        /\ req.kind = "groups" =>
              /\ response.status = 200
              /\ "error" \in DOMAIN response.body
              /\ response.body.total_groups = 0
              /\ response.body.groups = <<>>

\* a recommendation was asked while Redis, holding events, did not answer
C6_Witness ==
    /\ qpc = "idle" /\ req.kind = "recommend" /\ response.status # 0
    /\ ~readLog[1].reachable
    /\ readLog[1].list # <<>>

\* the events of the one read the request made, decoded from what it recorded
ReadContent == load_events_from_redis(readLog[1].reachable, readLog[1].list)

RulesOfReadContent ==
    generate_association_rules(prepare_transaction_data(ReadContent, req.time_window),
                               req.min_support, req.min_confidence, hashOrder)

IsSuffix(a, b) ==
    /\ Len(a) <= Len(b)
    /\ a = SubSeq(b, Len(b) - Len(a) + 1, Len(b))

\* C14: whatever the worker appends while a request runs, the request makes
\* one read of the store (which finds the list, or nothing when Redis does
\* not answer), the list it read is one the store held (the store has only
\* grown on top of it since), and the rules, recommendations, group metadata
\* and analytics are those of that one content
C14_OneSnapshot ==
    req.kind \in {"recommend", "groups", "analytics"} =>
        /\ Len(readLog) = 1
        /\ readLog[1].reachable => IsSuffix(readLog[1].list, store)
        /\ (req.kind = "recommend" /\ (qpc = "mined" \/ RecommendAnswered)) =>
              /\ prepared_data = prepare_transaction_data(ReadContent, req.time_window)
              /\ rules_result = RulesOfReadContent
        /\ RecommendAnswered =>
              response = get_product_recommendations(
                             recommend_products(RulesOfReadContent, req, hashOrder))
        /\ GroupsAnswered =>
              /\ prepared_data = prepare_transaction_data(ReadContent, req.time_window)
              /\ response = get_groups_info(ReadContent, req.time_window)
        /\ AnalyticsAnswered => response = get_product_analytics(ReadContent)

\* a recommendation mined from two stored events while the worker appended a
\* third one between the read and the answer
C14_Witness ==
    /\ RecommendAnswered
    /\ readLog[1].reachable
    /\ Len(readLog[1].list) = 2
    /\ Len(store) = 3
    /\ "error" \notin DOMAIN rules_result
    /\ Len(rules_result.rules) > 0

\* the store is the entries of some of the messages the worker has fetched,
\* each taken once, the later message first
StoreOfFetched ==
    \E appended \in SUBSET (1..offset) :
        /\ Cardinality(appended) = Len(store)
        /\ \A i \in appended : Decodes(topic[i])
        /\ \A k \in 1..Len(store) :
              \E i \in appended :
                 /\ Cardinality({j \in appended : j > i}) = k - 1
                 /\ store[k] = json_dumps(topic[i].event)

\* a step that changes the store is a turn of the worker's loop that puts the
\* entry of the message it fetched in front of the others, and no step of a
\* request is such a step
StoreStep ==
    \/ store' = store
    \/ /\ wpc = "loop"
       /\ offset' = offset + 1
       /\ Decodes(topic[offset + 1])
       /\ store' = <<json_dumps(topic[offset + 1].event)>> \o store
       /\ UNCHANGED <<qpc, req, readLog, prepared_data, rules_result, response>>

\* C15: the store holds exactly the events the worker appended, each once and
\* newest first; only the worker changes it, only by adding an entry, and no
\* recommend, group_info or product_analytics step adds, removes or alters one
C15_AppendOnly == []StoreOfFetched /\ [][StoreStep]_vars

\* two different events stored newest first, read and answered by a query
C15_Witness ==
    /\ Len(store) = 2
    /\ store[1] = json_dumps(topic[2].event)
    /\ store[2] = json_dumps(topic[1].event)
    /\ store[1] # store[2]
    /\ response.status # 0
    /\ readLog[1].list = store

====
